---- MODULE Spec2Model ----
(***************************************************************************)
(* Model of the inventory engine of src/main.py: class Item and class      *)
(* Inventory (save, find_by_barcode, find_by_name, add_item, edit_item,    *)
(* reduce_stock_by_barcode, import_invoice_xml).                           *)
(*                                                                         *)
(* Representation choices:                                                 *)
(*  - Python's None is the empty tuple; a present optional value v is the  *)
(*    one-element tuple <<v>>.                                             *)
(*  - money is an integer number of cents, a margin an integer number of   *)
(*    percent; round(x, 2) is rounding of the exact product to whole       *)
(*    cents, ties to even (the binary representation error of float is     *)
(*    not modelled).                                                       *)
(*  - text is a tuple of one-character strings, so that the numeric        *)
(*    parsing of the invoice fields is computed, not assumed.              *)
(*  - names and barcodes are non-empty strings; lookup keys are strings.   *)
(***************************************************************************)
EXTENDS Integers, Sequences, FiniteSets, TLC

VARIABLES items, disk, explicit, last

vars == <<items, disk, explicit, last>>

-----------------------------------------------------------------------------
(* Optional values                                                         *)

None == <<>>

Some(v) == <<v>>

-----------------------------------------------------------------------------
(* Bounds of the model                                                     *)

\* the catalog holds at most MaxItems Items
MaxItems == 2

\* a stored quantity is at most MaxQuantity ...
MaxQuantity == 2

\* ... and at least -MaxDebt
MaxDebt == 1

\* quantity arguments range over -1 .. MaxQtyArg
MaxQtyArg == 2

-----------------------------------------------------------------------------
(* Program constants                                                       *)

\* default_config["margin"] = 0.30, in percent
DEFAULT_MARGIN == 30

DEFAULT_CATEGORY == "akcesorium"

-----------------------------------------------------------------------------
(* Helpers                                                                 *)

Max(a, b) == IF a >= b THEN a ELSE b

\* str.lower() on the names of the model
Lower(s) ==
  CASE s = "Widget" -> "widget"
    [] s = "WIDGET" -> "widget"
    [] s = "Gadget" -> "gadget"
    [] s = "Brak nazwy" -> "brak nazwy"
    [] OTHER -> s

\* n / d rounded to an integer, ties to even (d > 0)
RoundHalfEven(n, d) ==
  LET q == n \div d
      r == n % d
  IN  IF 2 * r < d THEN q
      ELSE IF 2 * r > d THEN q + 1
      ELSE IF q % 2 = 0 THEN q ELSE q + 1

\* round(purchase_price * (1 + margin), 2), in cents
SalePrice(purchase_price, margin) ==
  RoundHalfEven(purchase_price * (100 + margin), 100)

\* truthiness of a barcode argument: None and "" are false
Truthy(barcode) == barcode # None /\ barcode # Some("")

-----------------------------------------------------------------------------
(* class Item                                                              *)

Item(name, category, quantity, purchase_price, sale_price, margin, barcode) ==
  [name           |-> name,
   category       |-> category,
   quantity       |-> quantity,
   purchase_price |-> purchase_price,
   margin         |-> margin,
   sale_price     |-> IF sale_price # None THEN sale_price[1]
                      ELSE SalePrice(purchase_price, margin),
   barcode        |-> barcode]

-----------------------------------------------------------------------------
(* class Inventory: lookups                                                *)

\* the first of the indices S in catalog order, 0 (None) when there is none
FirstOf(S) == IF S = {} THEN 0 ELSE CHOOSE i \in S : \A j \in S : i <= j

find_by_barcode(its, barcode) ==
  IF barcode = None THEN 0
  ELSE FirstOf({i \in 1..Len(its) : its[i].barcode = barcode})

find_by_name(its, name) ==
  FirstOf({i \in 1..Len(its) : Lower(its[i].name) = Lower(name)})

-----------------------------------------------------------------------------
(* Inventory.save: the whole catalog is written; a failure is swallowed.   *)
(* "open_failed": the file could not be opened and is left as it was;      *)
(* "truncated": the file was opened for writing (so emptied) and the dump  *)
(* failed, which a later load reads as an empty catalog.                   *)

WriteOutcomes == {"ok", "open_failed", "truncated"}

save(its, dsk, outcome) ==
  CASE outcome = "ok" -> its
    [] outcome = "open_failed" -> dsk
    [] OTHER -> <<>>

-----------------------------------------------------------------------------
(* Inventory.add_item                                                      *)

\* Merge with "=" in place of "+=" on the quantity
MergeOverwrite(it, quantity, purchase_price, sale_price, margin) ==
  LET p == IF purchase_price # 0 THEN purchase_price ELSE it.purchase_price
  IN  IF sale_price # None
      THEN [it EXCEPT !.quantity = quantity,
                      !.purchase_price = p,
                      !.sale_price = sale_price[1]]
      ELSE [it EXCEPT !.quantity = quantity,
                      !.purchase_price = p,
                      !.margin = margin,
                      !.sale_price = SalePrice(p, margin)]

\* the update of an existing Item (the same block in both branches)
Merge(it, quantity, purchase_price, sale_price, margin) ==
  LET p == IF purchase_price # 0 THEN purchase_price ELSE it.purchase_price
  IN  IF sale_price # None
      THEN [it EXCEPT !.quantity = @ + quantity,
                      !.purchase_price = p,
                      !.sale_price = sale_price[1]]
      ELSE [it EXCEPT !.quantity = @ + quantity,
                      !.purchase_price = p,
                      !.margin = margin,
                      !.sale_price = SalePrice(p, margin)]

\* AddTarget with the name lookup also after a barcode that was not found
AddTargetThenName(its, name, barcode) ==
  LET byBarcode == IF Truthy(barcode) THEN find_by_barcode(its, barcode) ELSE 0
  IN  IF byBarcode # 0 THEN byBarcode ELSE find_by_name(its, name)

\* the Item add_item updates: 0 when it appends a new one
AddTarget(its, name, barcode) ==
  LET byBarcode == IF Truthy(barcode) THEN find_by_barcode(its, barcode) ELSE 0
  IN  IF byBarcode # 0 THEN byBarcode
      ELSE IF ~Truthy(barcode) THEN find_by_name(its, name)
      ELSE 0

\* the catalog and the file after the call, and the index of the returned Item
add_item(its, dsk, name, category, quantity, barcode, purchase_price, sale_price, margin, outcome) ==
  LET t   == AddTarget(its, name, barcode)
      new == IF t # 0
             THEN [its EXCEPT ![t] = Merge(its[t], quantity, purchase_price,
                                           sale_price, margin)]
             ELSE Append(its, Item(name, category, quantity, purchase_price,
                                   sale_price, margin, barcode))
  IN  [items |-> new,
       disk  |-> save(new, dsk, outcome),
       ret   |-> IF t # 0 THEN t ELSE Len(its) + 1,
       wrote |-> outcome]

-----------------------------------------------------------------------------
(* Inventory.edit_item                                                     *)

\* the Item edit_item and the callers look up: by barcode, then by name
EditTarget(its, key) ==
  LET b == find_by_barcode(its, Some(key))
  IN  IF b # 0 THEN b ELSE find_by_name(its, key)

\* ApplyUpdates with the sale price assigned before the margin is applied
ApplyUpdatesMarginLast(it, upd) ==
  LET a == IF upd.name # None THEN [it EXCEPT !.name = upd.name[1]] ELSE it
      b == IF upd.category # None THEN [a EXCEPT !.category = upd.category[1]] ELSE a
      c == IF upd.quantity # None THEN [b EXCEPT !.quantity = upd.quantity[1]] ELSE b
      d == IF upd.purchase_price # None
           THEN [c EXCEPT !.purchase_price = upd.purchase_price[1]] ELSE c
      e == IF upd.sale_price # None
           THEN [d EXCEPT !.sale_price = upd.sale_price[1]] ELSE d
      f == IF upd.margin # None
           THEN [e EXCEPT !.margin = upd.margin[1],
                          !.sale_price = SalePrice(e.purchase_price, upd.margin[1])]
           ELSE e
  IN  IF upd.barcode # None THEN [f EXCEPT !.barcode = upd.barcode] ELSE f

\* the keyword arguments applied in the order of the code
ApplyUpdates(it, upd) ==
  LET a == IF upd.name # None THEN [it EXCEPT !.name = upd.name[1]] ELSE it
      b == IF upd.category # None THEN [a EXCEPT !.category = upd.category[1]] ELSE a
      c == IF upd.quantity # None THEN [b EXCEPT !.quantity = upd.quantity[1]] ELSE b
      d == IF upd.purchase_price # None
           THEN [c EXCEPT !.purchase_price = upd.purchase_price[1]] ELSE c
      e == IF upd.margin # None
           THEN [d EXCEPT !.margin = upd.margin[1],
                          !.sale_price = SalePrice(d.purchase_price, upd.margin[1])]
           ELSE d
      f == IF upd.sale_price # None
           THEN [e EXCEPT !.sale_price = upd.sale_price[1]] ELSE e
  IN  IF upd.barcode # None THEN [f EXCEPT !.barcode = upd.barcode] ELSE f

\* ret is 0 for None; wrote is "none" when save was not called
edit_item(its, dsk, key, upd, outcome) ==
  LET t   == EditTarget(its, key)
      new == [its EXCEPT ![t] = ApplyUpdates(its[t], upd)]
  IN  IF t = 0
      THEN [items |-> its, disk |-> dsk, ret |-> 0, wrote |-> "none"]
      ELSE [items |-> new, disk |-> save(new, dsk, outcome), ret |-> t,
            wrote |-> outcome]

-----------------------------------------------------------------------------
(* Inventory.reduce_stock_by_barcode                                       *)

\* ReducedQuantity without the max(0, ..)
ReducedQuantityUnclamped(quantity, qty) == quantity - qty

ReducedQuantity(quantity, qty) == Max(0, quantity - qty)

\* reduce_stock_by_barcode with the lookup of edit_item: barcode, then name
reduce_stock_by_key(its, dsk, barcode, qty, outcome) ==
  LET t   == EditTarget(its, barcode)
      new == [its EXCEPT ![t].quantity = ReducedQuantity(@, qty)]
  IN  IF t = 0
      THEN [items |-> its, disk |-> dsk, ret |-> 0, wrote |-> "none"]
      ELSE [items |-> new, disk |-> save(new, dsk, outcome), ret |-> t,
            wrote |-> outcome]

\* reduce_stock_by_barcode without its self.save()
reduce_stock_unsaved(its, dsk, barcode, qty, outcome) ==
  LET t   == find_by_barcode(its, Some(barcode))
      new == [its EXCEPT ![t].quantity = ReducedQuantity(@, qty)]
  IN  IF t = 0
      THEN [items |-> its, disk |-> dsk, ret |-> 0, wrote |-> "none"]
      ELSE [items |-> new, disk |-> dsk, ret |-> t, wrote |-> "none"]

reduce_stock_by_barcode(its, dsk, barcode, qty, outcome) ==
  LET t   == find_by_barcode(its, Some(barcode))
      new == [its EXCEPT ![t].quantity = ReducedQuantity(@, qty)]
  IN  IF t = 0
      THEN [items |-> its, disk |-> dsk, ret |-> 0, wrote |-> "none"]
      ELSE [items |-> new, disk |-> save(new, dsk, outcome), ret |-> t,
            wrote |-> outcome]

-----------------------------------------------------------------------------
(* Numeric text of an invoice field (import_invoice_xml)                   *)

Digits == {"0", "1", "2", "3", "4", "5", "6", "7", "8", "9"}

DigitVal(c) ==
  CASE c = "0" -> 0 [] c = "1" -> 1 [] c = "2" -> 2 [] c = "3" -> 3
    [] c = "4" -> 4 [] c = "5" -> 5 [] c = "6" -> 6 [] c = "7" -> 7
    [] c = "8" -> 8 [] OTHER -> 9

\* str.strip()
Strip(text) ==
  LET ns == {i \in 1..Len(text) : text[i] # " "}
  IN  IF ns = {} THEN <<>>
      ELSE SubSeq(text, CHOOSE i \in ns : \A j \in ns : i <= j,
                        CHOOSE i \in ns : \A j \in ns : i >= j)

\* str.replace(',', '.')
CommaToDot(text) == [i \in 1..Len(text) |-> IF text[i] = "," THEN "." ELSE text[i]]

\* the value of a string of digits (0 for the empty one)
RECURSIVE DigitsValue(_)
DigitsValue(ds) ==
  IF ds = <<>> THEN 0
  ELSE 10 * DigitsValue(SubSeq(ds, 1, Len(ds) - 1)) + DigitVal(ds[Len(ds)])

\* Decimal(text): None when the text is no decimal literal (InvalidOperation),
\* else <<[neg, whole, frac]>>: sign, integer part, fraction digits.
\* Literals are [sign] digits [. digits] and [sign] . digits; exponents,
\* NaN and Infinity are outside the alphabet of the model's texts.
ParseDecimal(text) ==
  LET signed == Len(text) > 0 /\ text[1] \in {"-", "+"}
      body   == IF signed THEN SubSeq(text, 2, Len(text)) ELSE text
      dots   == {i \in 1..Len(body) : body[i] = "."}
      wellFormed ==
        /\ \A i \in 1..Len(body) : body[i] \in Digits \cup {"."}
        /\ Cardinality(dots) <= 1
        /\ \E i \in 1..Len(body) : body[i] \in Digits
      dot    == IF dots = {} THEN Len(body) + 1 ELSE CHOOSE i \in dots : TRUE
  IN  IF ~wellFormed THEN None
      ELSE Some([neg   |-> signed /\ text[1] = "-",
                 whole |-> DigitsValue(SubSeq(body, 1, dot - 1)),
                 frac  |-> SubSeq(body, dot + 1, Len(body))])

\* float(text): on the alphabet of the model's texts float() accepts the
\* literals Decimal() accepts
ParseFloat(text) == ParseDecimal(text)

\* int(number): truncation towards zero
ToInt(num) == IF num.neg THEN 0 - num.whole ELSE num.whole

\* float(number) in cents (the model's texts carry at most two fraction digits)
ToCents(num) ==
  LET f  == num.frac
      c1 == IF Len(f) >= 1 THEN DigitVal(f[1]) ELSE 0
      c2 == IF Len(f) >= 2 THEN DigitVal(f[2]) ELSE 0
      v  == 100 * num.whole + 10 * c1 + c2
  IN  IF num.neg THEN 0 - v ELSE v

\* qty: int(Decimal(..)), else int(float(..)), else 0
ParseQuantity(qty_text) ==
  LET t == CommaToDot(Strip(qty_text))
  IN  IF ParseDecimal(t) # None THEN ToInt(ParseDecimal(t)[1])
      ELSE IF ParseFloat(t) # None THEN ToInt(ParseFloat(t)[1])
      ELSE 0

\* purchase_price: float(Decimal(..)), else float(..), else 0.0
ParsePrice(price_text) ==
  LET t == CommaToDot(Strip(price_text))
  IN  IF ParseDecimal(t) # None THEN ToCents(ParseDecimal(t)[1])
      ELSE IF ParseFloat(t) # None THEN ToCents(ParseFloat(t)[1])
      ELSE 0

\* a or b on optional texts: a when it is present and not empty
OrText(a, b) == IF a # None /\ a[1] # <<>> THEN a[1] ELSE b

-----------------------------------------------------------------------------
(* Inventory.import_invoice_xml                                            *)
(*                                                                         *)
(* A document is [exists, wellformed, primary, alternate]: whether the     *)
(* file exists, whether it parses, and the Line nodes of its first         *)
(* Invoice-Lines and of its first InvoiceLines element (None when there is *)
(* no such element). A Line node is [item, own]: the fields of its         *)
(* Line-Item descendant (None when it has none) and the fields it holds    *)
(* directly. Fields are [EAN, ean, ItemDescription, InvoiceQuantity,       *)
(* InvoiceUnitNetPrice], each the element's text or None when absent.      *)

\* str.strip() on the descriptions and barcodes of the model
StripStr(s) ==
  CASE s = " 111 " -> "111"
    [] s = " 222 " -> "222"
    [] s = " Gadget " -> "Gadget"
    [] s = "  " -> ""
    [] OTHER -> s

\* a or b on optional strings: a when it is present and not empty
OrStr(a, b) == IF a # None /\ a[1] # "" THEN a[1] ELSE b

NoFields ==
  [EAN |-> None, ean |-> None, ItemDescription |-> None,
   InvoiceQuantity |-> None, InvoiceUnitNetPrice |-> None]

\* an Element is true when it has children
HasChildren(f) == \E k \in DOMAIN f : f[k] # None

\* li = line.find('.//Line-Item') or line
LineItem(line) ==
  IF line.item # None /\ HasChildren(line.item[1]) THEN line.item[1] ELSE line.own

\* the arguments of add_item extracted from one Line node
ExtractLine(line) ==
  LET li   == LineItem(line)
      ean  == StripStr(OrStr(li.EAN, OrStr(li.ean, "")))
      name == OrStr(li.ItemDescription, "Brak nazwy")
  IN  [ean            |-> IF ean # "" THEN Some(ean) ELSE None,
       name           |-> StripStr(name),
       qty            |-> ParseQuantity(OrText(li.InvoiceQuantity, <<"0">>)),
       purchase_price |-> ParsePrice(OrText(li.InvoiceUnitNetPrice, <<"0">>))]

\* Line nodes of the model
Fields(EAN, ean, description, quantity, price) ==
  [EAN |-> EAN, ean |-> ean, ItemDescription |-> description,
   InvoiceQuantity |-> quantity, InvoiceUnitNetPrice |-> price]

\* a Line node with its fields in a Line-Item
Wrapped(f) == [item |-> Some(f), own |-> NoFields]

\* a Line node holding its fields directly
Direct(f) == [item |-> None, own |-> f]

\* EAN 111, Widget, 2, 10,00
LineA ==
  Wrapped(Fields(Some("111"), None, Some("Widget"), Some(<<"2">>),
                 Some(<<"1", "0", ",", "0", "0">>)))

\* no EAN, " Gadget ", " 1", 10.00
LineB ==
  Direct(Fields(None, None, Some(" Gadget "), Some(<<" ", "1">>),
                Some(<<"1", "0", ".", "0", "0">>)))

\* an empty EAN and ean " 111 ", widget, -1,9, 10,00
LineC ==
  Direct(Fields(Some(""), Some(" 111 "), Some("widget"),
                Some(<<"-", "1", ",", "9">>),
                Some(<<"1", "0", ",", "0", "0">>)))

\* ean " 222 ", widget, 1.5, 10,00
LineD ==
  Direct(Fields(None, Some(" 222 "), Some("widget"), Some(<<"1", ".", "5">>),
                Some(<<"1", "0", ",", "0", "0">>)))

\* an unparsable quantity and an unparsable price, no other field
LineBad ==
  Wrapped(Fields(None, None, None, Some(<<"a", "b", "c">>),
                 Some(<<"1", ",", "5", ",", "0">>)))

\* a Line with an empty Line-Item and no fields
LineEmpty == Wrapped(NoFields)

\* EAN 111, Widget, 1, 9,99
LineP ==
  Wrapped(Fields(Some("111"), None, Some("Widget"), Some(<<"1">>),
                 Some(<<"9", ",", "9", "9">>)))

\* EAN 111, Widget, 1, 0
LineZ ==
  Direct(Fields(Some("111"), None, Some("Widget"), Some(<<"1">>),
                Some(<<"0">>)))

Lines == {LineA, LineB, LineC, LineD, LineP, LineZ, LineBad, LineEmpty}

\* ExtractLine on the Line nodes of the model, computed once
LineArgs == [line \in Lines |-> ExtractLine(line)]

\* whether the sale price of each Item was supplied explicitly by the call
\* that created it or by the latest call that changed its prices
ExplicitAfterAdd(expl, its, ret, sale_price) ==
  IF ret > Len(its) THEN Append(expl, sale_price # None)
  ELSE [expl EXCEPT ![ret] = sale_price # None]

\* ImportLines with a "continue" for the lines that give no barcode and no
\* description: they are neither reconciled nor counted
RECURSIVE ImportLinesSkipping(_, _, _)
ImportLinesSkipping(st, lines, outcomes) ==
  IF lines = <<>> THEN st
  ELSE LET li == LineArgs[Head(lines)]
           r  == add_item(st.items, st.disk, li.name, DEFAULT_CATEGORY, li.qty,
                          li.ean, li.purchase_price, None, DEFAULT_MARGIN,
                          Head(outcomes))
       IN  IF li.ean = None /\ li.name = "Brak nazwy"
           THEN ImportLinesSkipping(st, Tail(lines), Tail(outcomes))
           ELSE ImportLinesSkipping(
                  [items    |-> r.items,
                   disk     |-> r.disk,
                   explicit |-> ExplicitAfterAdd(st.explicit, st.items, r.ret, None),
                   ret      |-> st.ret + 1,
                   err      |-> "",
                   wrote    |-> r.wrote],
                  Tail(lines), Tail(outcomes))

\* the loop over the Line nodes: one add_item, so one save, per line
RECURSIVE ImportLines(_, _, _)
ImportLines(st, lines, outcomes) ==
  IF lines = <<>> THEN st
  ELSE LET li == LineArgs[Head(lines)]
           r  == add_item(st.items, st.disk, li.name, DEFAULT_CATEGORY, li.qty,
                          li.ean, li.purchase_price, None, DEFAULT_MARGIN,
                          Head(outcomes))
       IN  ImportLines([items    |-> r.items,
                        disk     |-> r.disk,
                        explicit |-> ExplicitAfterAdd(st.explicit, st.items, r.ret, None),
                        ret      |-> st.ret + 1,
                        err      |-> "",
                        wrote    |-> r.wrote],
                       Tail(lines), Tail(outcomes))

\* the Line nodes of the container of a document (one write outcome is
\* drawn for each)
DocLines(doc) ==
  IF doc.primary # None THEN doc.primary[1]
  ELSE IF doc.alternate # None THEN doc.alternate[1]
  ELSE <<>>

\* import_invoice_xml over a parser that reports a malformed document only
\* when it reaches the defect, after the lines before it were reconciled
import_invoice_streaming(its, dsk, expl, doc, outcomes) ==
  LET start == [items |-> its, disk |-> dsk, explicit |-> expl, ret |-> 0,
                err |-> "", wrote |-> "none"]
      done  == ImportLines(start, DocLines(doc), outcomes)
  IN  IF ~doc.exists THEN [start EXCEPT !.err = "FileNotFoundError"]
      ELSE IF doc.primary = None /\ doc.alternate = None
      THEN [start EXCEPT !.err = IF doc.wellformed THEN "ValueError"
                                 ELSE "ParseError"]
      ELSE IF ~doc.wellformed THEN [done EXCEPT !.err = "ParseError"]
      ELSE done

\* ret is the count returned, err the exception raised ("" for none)
import_invoice_xml(its, dsk, expl, doc, outcomes) ==
  LET start == [items |-> its, disk |-> dsk, explicit |-> expl, ret |-> 0,
                err |-> "", wrote |-> "none"]
  IN  IF ~doc.exists THEN [start EXCEPT !.err = "FileNotFoundError"]
      ELSE IF ~doc.wellformed THEN [start EXCEPT !.err = "ParseError"]
      ELSE IF doc.primary # None THEN ImportLines(start, doc.primary[1], outcomes)
      ELSE IF doc.alternate # None THEN ImportLines(start, doc.alternate[1], outcomes)
      ELSE [start EXCEPT !.err = "ValueError"]

-----------------------------------------------------------------------------
(* State                                                                   *)
(*  items    : Inventory.items                                             *)
(*  disk     : the catalog the inventory file holds                        *)
(*  explicit : per Item, whether its sale price was supplied explicitly    *)
(*             (history)                                                   *)
(*  last     : the latest call (history): op; ret, the index of the Item   *)
(*             returned (the count, for an import); created, whether the   *)
(*             call appended that Item; key, the barcode or key argument;  *)
(*             quantity, the quantity argument; before, the quantity the   *)
(*             Item had when add_item or reduce_stock_by_barcode found it; *)
(*             first, the quantity of                                      *)
(*             the call before when that call was the add_item that        *)
(*             created the Item of the same barcode; fields, the keyword   *)
(*             arguments edit_item was given a value for; err; wrote, the  *)
(*             outcome of the last save of the call ("none" when it saved  *)
(*             nothing)                                                    *)

NoCall ==
  [op |-> "init", ret |-> 0, created |-> FALSE, key |-> None, quantity |-> 0,
   before |-> 0, first |-> None, fields |-> {}, err |-> "", wrote |-> "none"]

Init ==
  /\ items = <<>>
  /\ disk = <<>>
  /\ explicit = <<>>
  /\ last = NoCall

\* the bounds of the model
InBounds(its) ==
  /\ Len(its) <= MaxItems
  /\ \A i \in 1..Len(its) :
       its[i].quantity >= 0 - MaxDebt /\ its[i].quantity <= MaxQuantity

-----------------------------------------------------------------------------
(* Actions: one per operation of Inventory                                 *)

AddItem(name, category, quantity, barcode, purchase_price, sale_price, margin, outcome) ==
  LET r == add_item(items, disk, name, category, quantity, barcode,
                    purchase_price, sale_price, margin, outcome)
      created == r.ret > Len(items)
  IN  /\ InBounds(r.items)
      /\ items' = r.items
      /\ disk' = r.disk
      /\ explicit' = ExplicitAfterAdd(explicit, items, r.ret, sale_price)
      /\ last' = [op |-> "add", ret |-> r.ret, created |-> created,
                  key |-> barcode, quantity |-> quantity,
                  before |-> IF created THEN 0 ELSE items[r.ret].quantity,
                  first |-> IF /\ ~created
                               /\ last.op = "add" /\ last.created
                               /\ Truthy(barcode) /\ last.key = barcode
                            THEN Some(last.quantity) ELSE None,
                  fields |-> {}, err |-> "", wrote |-> r.wrote]

\* an update changes the prices when it carries a sale price, a margin, or a
\* purchase price other than the Item's
ExplicitAfterEdit(expl, its, ret, upd) ==
  IF ret = 0 THEN expl
  ELSE IF upd.sale_price # None THEN [expl EXCEPT ![ret] = TRUE]
  ELSE IF upd.margin # None THEN [expl EXCEPT ![ret] = FALSE]
  ELSE IF upd.purchase_price # None
          /\ upd.purchase_price[1] # its[ret].purchase_price
       THEN [expl EXCEPT ![ret] = FALSE]
  ELSE expl

EditItem(key, upd, outcome) ==
  LET r == edit_item(items, disk, key, upd, outcome)
  IN  /\ InBounds(r.items)
      /\ items' = r.items
      /\ disk' = r.disk
      /\ explicit' = ExplicitAfterEdit(explicit, items, r.ret, upd)
      /\ last' = [op |-> "edit", ret |-> r.ret, created |-> FALSE,
                  key |-> Some(key),
                  quantity |-> IF upd.quantity # None THEN upd.quantity[1] ELSE 0,
                  before |-> 0, first |-> None,
                  fields |-> {f \in DOMAIN upd : upd[f] # None},
                  err |-> "", wrote |-> r.wrote]

ReduceStock(barcode, qty, outcome) ==
  LET r == reduce_stock_by_barcode(items, disk, barcode, qty, outcome)
  IN  /\ InBounds(r.items)
      /\ items' = r.items
      /\ disk' = r.disk
      /\ explicit' = explicit
      /\ last' = [op |-> "reduce", ret |-> r.ret, created |-> FALSE,
                  key |-> Some(barcode), quantity |-> qty,
                  before |-> IF r.ret = 0 THEN 0 ELSE items[r.ret].quantity,
                  first |-> None, fields |-> {}, err |-> "", wrote |-> r.wrote]

ImportInvoice(doc, outcomes) ==
  LET r == import_invoice_xml(items, disk, explicit, doc, outcomes)
  IN  /\ InBounds(r.items)
      /\ items' = r.items
      /\ disk' = r.disk
      /\ explicit' = r.explicit
      /\ last' = [op |-> "import", ret |-> r.ret, created |-> FALSE,
                  key |-> None, quantity |-> 0, before |-> 0, first |-> None,
                  fields |-> {}, err |-> r.err, wrote |-> r.wrote]

\* the "save" command of the console
Save(outcome) ==
  /\ items' = items
  /\ disk' = save(items, disk, outcome)
  /\ explicit' = explicit
  /\ last' = [op |-> "save", ret |-> 0, created |-> FALSE, key |-> None,
              quantity |-> 0, before |-> 0, first |-> None, fields |-> {},
              err |-> "", wrote |-> outcome]

-----------------------------------------------------------------------------
(* Inputs                                                                  *)

Names == {"Widget", "widget", "Gadget"}

Barcodes == {"111", "222"}

\* lookup keys: every barcode and every name
Keys == Barcodes \cup Names

QtyArgs == (0 - 1)..MaxQtyArg

Opt(S) == {None} \cup {Some(v) : v \in S}

NoUpdate ==
  [name |-> None, category |-> None, quantity |-> None, purchase_price |-> None,
   sale_price |-> None, margin |-> None, barcode |-> None]

\* at most MaxLines Line nodes in a document
MaxLines == 2

SeqsUpTo(S, n) == UNION {[1..k -> S] : k \in 0..n}

Doc(exists, wellformed, primary, alternate) ==
  [exists |-> exists, wellformed |-> wellformed, primary |-> primary,
   alternate |-> alternate]

\* the documents import_invoice_xml rejects: no file; a file that is not
\* well-formed (its text may hold an Invoice-Lines element all the same); a
\* well-formed one with neither container
BadDocs ==
  {Doc(FALSE, FALSE, None, None),
   Doc(TRUE, FALSE, None, None),
   Doc(TRUE, FALSE, Some(<<LineA>>), None),
   Doc(TRUE, TRUE, None, None)}

\* the documents over the Line nodes L: the lines under Invoice-Lines, or
\* one line under InvoiceLines, or elements of both names
GoodDocs(L) ==
  {Doc(TRUE, TRUE, Some(ls), None) : ls \in SeqsUpTo(L, MaxLines)}
  \cup {Doc(TRUE, TRUE, None, Some(<<l>>)) : l \in L}
  \cup {Doc(TRUE, TRUE, Some(<<l>>), Some(<<LineEmpty>>)) : l \in L}

\* the updates of edit_item that carry exactly one of the fields of F
OneField(F) ==
  {[NoUpdate EXCEPT ![f] = v] : <<f, v>> \in F}

-----------------------------------------------------------------------------
(* Specifications. Step(P) is the next-state relation with the arguments   *)
(* of the calls drawn from the sets of P.                                  *)

Step(P) ==
  \/ \E name \in P.names, category \in P.categories, quantity \in P.quantities,
        barcode \in P.barcodes, purchase_price \in P.prices,
        sale_price \in P.sale_prices, margin \in P.margins,
        outcome \in P.outcomes :
       AddItem(name, category, quantity, barcode, purchase_price, sale_price,
               margin, outcome)
  \/ \E key \in P.keys, upd \in P.updates, outcome \in P.outcomes :
       EditItem(key, upd, outcome)
  \/ \E barcode \in P.keys, qty \in P.quantities, outcome \in P.outcomes :
       ReduceStock(barcode, qty, outcome)
  \/ \E doc \in P.docs :
       \E outcomes \in [1..Len(DocLines(doc)) -> P.outcomes] :
         ImportInvoice(doc, outcomes)
  \/ \E outcome \in P.outcomes : Save(outcome)

\* the updates of the quantity, the name and the barcode
StockUpdates(names, barcodes) ==
  {NoUpdate}
  \cup OneField(({"name"} \X {Some(n) : n \in names})
                \cup ({"quantity"} \X {Some(q) : q \in QtyArgs})
                \cup ({"barcode"} \X {Some(b) : b \in barcodes}))

\* stock keeping: quantities and barcodes vary, every write succeeds
Stock ==
  [names       |-> {"Widget", "widget"},
   categories  |-> {DEFAULT_CATEGORY},
   quantities  |-> QtyArgs,
   barcodes    |-> Opt(Barcodes),
   prices      |-> {1000},
   sale_prices |-> {None},
   margins     |-> {DEFAULT_MARGIN},
   outcomes    |-> {"ok"},
   keys        |-> Keys,
   updates     |-> StockUpdates({"Widget", "widget"}, Barcodes),
   docs        |-> BadDocs \cup GoodDocs({LineA, LineD})]

Next == Step(Stock)

Spec == Init /\ [][Next]_vars

\* matching: names vary, one barcode
Match ==
  [names       |-> Names,
   categories  |-> {DEFAULT_CATEGORY},
   quantities  |-> QtyArgs,
   barcodes    |-> Opt({"111"}),
   prices      |-> {1000},
   sale_prices |-> {None},
   margins     |-> {DEFAULT_MARGIN},
   outcomes    |-> {"ok"},
   keys        |-> Keys,
   updates     |-> StockUpdates(Names, {"111"}),
   docs        |-> BadDocs \cup GoodDocs({LineA, LineB, LineC})]

NextMatch == Step(Match)

SpecMatch == Init /\ [][NextMatch]_vars

\* pricing: prices, margins and explicit sale prices vary
Price ==
  [names       |-> {"Widget"},
   categories  |-> {DEFAULT_CATEGORY},
   quantities  |-> {0, 1},
   barcodes    |-> Opt({"111"}),
   prices      |-> {0, 999},
   sale_prices |-> Opt({1999}),
   margins     |-> {DEFAULT_MARGIN, 40},
   outcomes    |-> {"ok"},
   keys        |-> {"111", "Widget"},
   updates     |-> {[NoUpdate EXCEPT !.purchase_price = p, !.sale_price = sp,
                                     !.margin = m] :
                      p \in Opt({1050}), sp \in Opt({1999}),
                      m \in Opt({DEFAULT_MARGIN, 40})},
   docs        |-> BadDocs \cup GoodDocs({LineP, LineZ})]

NextPrice == Step(Price)

SpecPrice == Init /\ [][NextPrice]_vars

\* persistence: the writes may fail
Persist ==
  [names       |-> {"Widget", "Gadget"},
   categories  |-> {DEFAULT_CATEGORY},
   quantities  |-> {1},
   barcodes    |-> Opt({"111"}),
   prices      |-> {1000},
   sale_prices |-> {None},
   margins     |-> {DEFAULT_MARGIN},
   outcomes    |-> WriteOutcomes,
   keys        |-> {"111", "Widget", "Gadget"},
   updates     |-> {NoUpdate, [NoUpdate EXCEPT !.quantity = Some(0)]},
   docs        |-> BadDocs \cup GoodDocs({LineA, LineB})]

NextPersist == Step(Persist)

SpecPersist == Init /\ [][NextPersist]_vars

\* invoices: lines that share a barcode or a name, lines without usable
\* fields
Invoice ==
  [names       |-> {"widget"},
   categories  |-> {DEFAULT_CATEGORY},
   quantities  |-> {1},
   barcodes    |-> Opt({"111"}),
   prices      |-> {1000},
   sale_prices |-> {None},
   margins     |-> {DEFAULT_MARGIN},
   outcomes    |-> {"ok"},
   keys        |-> {"111", "Widget"},
   updates     |-> {NoUpdate, [NoUpdate EXCEPT !.quantity = Some(0)]},
   docs        |-> BadDocs
                   \cup GoodDocs({LineA, LineC, LineD, LineBad, LineEmpty})]

NextInvoice == Step(Invoice)

SpecInvoice == Init /\ [][NextInvoice]_vars

-----------------------------------------------------------------------------
(* Claims                                                                  *)

\* the indices of the Items of its that carry the barcode b
WithBarcode(its, b) == {i \in 1..Len(its) : its[i].barcode = b}

\* C1: every Item of the catalog has quantity >= 0, in every reachable state.
C1_QuantityNonNegative ==
  \A i \in 1..Len(items) : items[i].quantity >= 0

\* C2: no two Items of the catalog share a non-null barcode.
C2_BarcodeUnique ==
  \A i, j \in 1..Len(items) :
    (i # j /\ items[i].barcode # None) => items[i].barcode # items[j].barcode

\* C5: after an add_item with barcode b and quantity q1 >= 0 that found no
\* Item of barcode b, directly followed by an add_item with barcode b and
\* quantity q2 >= 0, exactly one Item has barcode b and its quantity is
\* q1 + q2.
C5_TwoAddsAccumulate ==
  (/\ last.op = "add"
   /\ last.first # None
   /\ last.first[1] >= 0
   /\ last.quantity >= 0)
  => /\ WithBarcode(items, last.key) = {last.ret}
     /\ items[last.ret].quantity = last.first[1] + last.quantity

\* C5 witness: barcode b added with 1, then with 1, next to another Item
C5_Witness ==
  /\ last.op = "add"
  /\ last.first = Some(1)
  /\ last.quantity = 1
  /\ Len(items) = 2
  /\ items[last.ret].quantity = 2

\* C8: reduce_stock_by_barcode(barcode, qty) on the first Item of that
\* barcode sets its quantity to max(0, quantity - qty), which is >= 0, and
\* changes nothing else in the catalog.
C8_ReduceClamps ==
  [][(last'.op = "reduce" /\ last'.ret # 0)
     => LET t == last'.ret
            q == items[t].quantity - last'.quantity
        IN  /\ t \in WithBarcode(items, last'.key)
            /\ \A j \in WithBarcode(items, last'.key) : t <= j
            /\ items' = [items EXCEPT ![t].quantity = IF q > 0 THEN q ELSE 0]
            /\ items'[t].quantity >= 0]_vars

\* C8 witness: an Item of quantity 1 reduced by 2 is left with 0
C8_Witness ==
  /\ last.op = "reduce"
  /\ last.ret # 0
  /\ last.before = 1
  /\ last.quantity = 2
  /\ items[last.ret].quantity = 0

\* C3: an add_item with purchase price 0 and no sale price that matches an
\* existing Item adds the incoming quantity and leaves the Item's
\* purchase_price and sale_price as they were.
C3_ZeroPriceKeepsPrices ==
  [][\A name \in Price.names, category \in Price.categories,
        quantity \in Price.quantities, barcode \in Price.barcodes,
        margin \in Price.margins, outcome \in Price.outcomes :
       (/\ last'.op = "add"
        /\ ~last'.created
        /\ AddItem(name, category, quantity, barcode, 0, None, margin, outcome))
       => LET t == last'.ret
          IN  /\ items'[t].quantity = items[t].quantity + quantity
              /\ items'[t].purchase_price = items[t].purchase_price
              /\ items'[t].sale_price = items[t].sale_price]_vars

\* C4: every Item whose sale price was not supplied explicitly, by the call
\* that created it or by the latest call that changed its prices, has
\* sale_price = round(purchase_price * (1 + margin), 2).
C4_SalePriceDerived ==
  \A i \in 1..Len(items) :
    ~explicit[i]
    => items[i].sale_price = SalePrice(items[i].purchase_price, items[i].margin)

\* the incoming line (name, barcode) and the Item it are the same stock line
SameStockLine(it, name, barcode) ==
  \/ barcode # None /\ it.barcode = barcode
  \/ barcode = None /\ it.barcode = None /\ Lower(it.name) = Lower(name)

\* C6: add_item changes an existing Item only if it is the same stock line
\* as the incoming line: the same non-null barcode, or no barcode on either
\* side and names equal up to case.
C6_UpdatesSameStockLine ==
  [][\A name \in Match.names, category \in Match.categories,
        quantity \in Match.quantities, barcode \in Match.barcodes,
        purchase_price \in Match.prices, sale_price \in Match.sale_prices,
        margin \in Match.margins, outcome \in Match.outcomes :
       AddItem(name, category, quantity, barcode, purchase_price, sale_price,
               margin, outcome)
       => \A i \in 1..Len(items) :
            items'[i] # items[i] => SameStockLine(items[i], name, barcode)]_vars

\* C7: an import_invoice_xml that raises (no file, malformed document, no
\* line-items container) leaves the catalog and the file as they were.
C7_FailedImportChangesNothing ==
  [][(last'.op = "import" /\ last'.err # "")
     => (items' = items /\ disk' = disk)]_vars

\* C7 witness: the import raised for a missing container on a catalog of two
\* Items whose file is out of date
C7_Witness ==
  /\ last.op = "import"
  /\ last.err = "ValueError"
  /\ Len(items) = 2
  /\ disk # items

\* C9: when the last write of a call succeeds the file holds the catalog,
\* Item by Item, and no call changes the catalog without writing it.
C9_SavedAfterMutation ==
  [][/\ last'.wrote = "ok" => disk' = items'
     /\ items' # items => last'.wrote # "none"]_vars

\* C9 witness: an import of two lines whose last write succeeded, over a file
\* that was out of date
C9_Witness ==
  /\ last.op = "import"
  /\ last.ret = 2
  /\ last.wrote = "ok"
  /\ Len(items) = 2
  /\ disk = items

\* C10: an edit_item whose key is no Item's barcode and no Item's name (up to
\* case), and a reduce_stock_by_barcode whose key is no Item's barcode,
\* return None, raise nothing and leave the catalog and the file unchanged.
C10_NotFoundChangesNothing ==
  [][(\/ /\ last'.op = "reduce"
         /\ WithBarcode(items, last'.key) = {}
      \/ /\ last'.op = "edit"
         /\ WithBarcode(items, last'.key) = {}
         /\ \A i \in 1..Len(items) : Lower(items[i].name) # Lower(last'.key[1]))
     => /\ last'.ret = 0
        /\ last'.err = ""
        /\ items' = items
        /\ disk' = disk]_vars

\* C10 witness: reduce_stock_by_barcode was called with the name of an Item,
\* found nothing, and the file is still out of date
C10_Witness ==
  /\ last.op = "reduce"
  /\ last.ret = 0
  /\ \E i \in 1..Len(items) : Some(items[i].name) = last.key
  /\ disk # items

\* C11: an add_item with a barcode that no Item carries appends a new Item
\* of that barcode and name at the end of the catalog and leaves every
\* existing Item as it was, also the Items of the same name up to case.
C11_UnknownBarcodeAppends ==
  [][\A name \in Match.names, category \in Match.categories,
        quantity \in Match.quantities, barcode \in Match.barcodes,
        purchase_price \in Match.prices, sale_price \in Match.sale_prices,
        margin \in Match.margins, outcome \in Match.outcomes :
       (/\ barcode # None
        /\ WithBarcode(items, barcode) = {}
        /\ last'.op = "add"
        /\ last'.key = barcode
        /\ AddItem(name, category, quantity, barcode, purchase_price,
                   sale_price, margin, outcome))
       => /\ Len(items') = Len(items) + 1
          /\ \A i \in 1..Len(items) : items'[i] = items[i]
          /\ items'[Len(items')].barcode = barcode
          /\ items'[Len(items')].name = name
          /\ items'[Len(items')].quantity = quantity
          /\ last'.ret = Len(items')]_vars

\* C11 witness: an add_item with a barcode appended an Item after an Item of
\* the same name up to case, which carries no barcode
C11_Witness ==
  /\ last.op = "add"
  /\ last.created
  /\ last.key # None
  /\ last.ret = Len(items)
  /\ \E i \in 1..(Len(items) - 1) :
       /\ Lower(items[i].name) = Lower(items[last.ret].name)
       /\ items[i].barcode = None

\* the value of field f after an update: the one given, or the previous one
Updated(it, upd, f) == IF upd[f] # None THEN upd[f][1] ELSE it[f]

\* C12: an edit_item that finds an Item leaves it with the sale price of the
\* update when the update carries one, whatever margin it carries; with
\* round(p * (1 + margin), 2) when the update carries a margin and no sale
\* price, p being the purchase price of the update or else the Item's
\* previous one; and every field the update does not carry keeps its value
\* (the sale price too, when the update carries neither it nor a margin).
C12_EditPrices ==
  [][\A upd \in Price.updates, outcome \in Price.outcomes :
       (/\ last'.op = "edit"
        /\ last'.ret # 0
        /\ last'.fields = {f \in DOMAIN upd : upd[f] # None}
        /\ EditItem(last'.key[1], upd, outcome))
       => LET t   == last'.ret
              old == items[t]
              new == items'[t]
              p   == Updated(old, upd, "purchase_price")
          IN  /\ new.sale_price =
                   IF upd.sale_price # None THEN upd.sale_price[1]
                   ELSE IF upd.margin # None
                        THEN RoundHalfEven(p * (100 + upd.margin[1]), 100)
                        ELSE old.sale_price
              /\ new.purchase_price = p
              /\ new.margin = Updated(old, upd, "margin")
              /\ new.name = Updated(old, upd, "name")
              /\ new.category = Updated(old, upd, "category")
              /\ new.quantity = Updated(old, upd, "quantity")
              /\ new.barcode = IF upd.barcode # None THEN upd.barcode
                               ELSE old.barcode
              /\ \A i \in 1..Len(items) : i # t => items'[i] = items[i]
              /\ Len(items') = Len(items)]_vars

\* C12 witness: an edit_item that carried a margin and a sale price left the
\* Item with that sale price, which is not the one the margin gives
C12_Witness ==
  /\ last.op = "edit"
  /\ last.ret # 0
  /\ last.fields = {"margin", "sale_price"}
  /\ items[last.ret].sale_price = 1999
  /\ items[last.ret].margin = 40
  /\ items[last.ret].sale_price
       # SalePrice(items[last.ret].purchase_price, items[last.ret].margin)

\* the Item of the catalog its that a line of arguments li is reconciled
\* with: the first of its barcode, or the first of its name when it has none
LineTarget(its, li) ==
  IF li.ean # None
  THEN FirstOf({k \in 1..Len(its) : its[k].barcode = li.ean})
  ELSE FirstOf({k \in 1..Len(its) : Lower(its[k].name) = Lower(li.name)})

\* the sum of the quantities of the lines ls at the positions S
RECURSIVE SumQty(_, _)
SumQty(ls, S) ==
  IF S = {} THEN 0
  ELSE LET i == CHOOSE x \in S : TRUE
       IN  LineArgs[ls[i]].qty + SumQty(ls, S \ {i})

\* the arguments of a line without usable fields
DefaultArgs == [ean |-> None, name |-> "Brak nazwy", qty |-> 0, purchase_price |-> 0]

\* what a successful import of the lines ls made of the catalog old: new is
\* the catalog after it and count the number returned. Every line has an
\* Item; every Item holds the quantity it had plus the quantities of the
\* lines reconciled with it, each counted once; the Items of old keep their
\* place, name and barcode; the appended Items stand in the order of the
\* first lines reconciled with them; a line without usable fields counts as
\* a line of the placeholder name, no barcode, quantity 0 and price 0.
EachLineReconciled(old, new, ls, count) ==
  LET n    == Len(ls)
      T(i) == LineTarget(new, LineArgs[ls[i]])
      L(k) == {i \in 1..n : T(i) = k}
  IN  /\ count = n
      /\ Len(new) >= Len(old)
      /\ \A i \in 1..n : T(i) # 0
      /\ \A i \in 1..n :
           ls[i] \in {LineBad, LineEmpty} => ExtractLine(ls[i]) = DefaultArgs
      /\ \A k \in 1..Len(old) :
           /\ new[k].name = old[k].name
           /\ new[k].barcode = old[k].barcode
           /\ new[k].quantity = old[k].quantity + SumQty(ls, L(k))
      /\ \A k \in (Len(old) + 1)..Len(new) :
           /\ L(k) # {}
           /\ new[k].quantity = SumQty(ls, L(k))
           /\ \A m \in (k + 1)..Len(new) : FirstOf(L(k)) < FirstOf(L(m))

\* two lines of the same key: the same barcode, or no barcode on either and
\* names equal up to case
SameKey(a, b) ==
  \/ a.ean # None /\ a.ean = b.ean
  \/ a.ean = None /\ b.ean = None /\ Lower(a.name) = Lower(b.name)

\* two lines of the same barcode or of the same name up to case
SameBarcodeOrName(a, b) ==
  \/ a.ean # None /\ a.ean = b.ean
  \/ Lower(a.name) = Lower(b.name)

\* C13 (amended): a successful import_invoice_xml returns the number of Line
\* nodes and reconciles each of them once, in document order, the lines
\* without usable fields with the default values; a later line of the same
\* key as an earlier line (the same barcode, or no barcode on either and the
\* same name up to case) is reconciled with the same Item.
C13_ImportReconcilesEachLine ==
  [][\A doc \in Invoice.docs :
       \A outcomes \in [1..Len(DocLines(doc)) -> Invoice.outcomes] :
         (/\ last'.op = "import"
          /\ last'.err = ""
          /\ ImportInvoice(doc, outcomes))
         => LET ls == DocLines(doc)
            IN  /\ EachLineReconciled(items, items', ls, last'.ret)
                /\ \A i, j \in 1..Len(ls) :
                     (i < j /\ SameKey(LineArgs[ls[i]], LineArgs[ls[j]]))
                     => LineTarget(items', LineArgs[ls[j]])
                          = LineTarget(items', LineArgs[ls[i]])]_vars

\* C13 witness: an import of two lines without usable fields returned 2 and
\* left one Item of the placeholder name, after an Item of a barcode
C13_Witness ==
  /\ last.op = "import"
  /\ last.err = ""
  /\ last.ret = 2
  /\ Len(items) = 2
  /\ items[1].barcode # None
  /\ items[2].name = "Brak nazwy"
  /\ items[2].barcode = None
  /\ items[2].quantity = 0

\* C13 as stated: a successful import_invoice_xml returns the number of Line
\* nodes and reconciles each of them once, in document order, and a later
\* line of the same barcode or the same name as an earlier line is
\* reconciled with the same Item.
C13_SameNameMerges ==
  [][\A doc \in Invoice.docs :
       \A outcomes \in [1..Len(DocLines(doc)) -> Invoice.outcomes] :
         (/\ last'.op = "import"
          /\ last'.err = ""
          /\ ImportInvoice(doc, outcomes))
         => LET ls == DocLines(doc)
            IN  /\ EachLineReconciled(items, items', ls, last'.ret)
                /\ \A i, j \in 1..Len(ls) :
                     (i < j /\ SameBarcodeOrName(LineArgs[ls[i]], LineArgs[ls[j]]))
                     => LineTarget(items', LineArgs[ls[j]])
                          = LineTarget(items', LineArgs[ls[i]])]_vars

====
